---- MODULE Spec2Model ----
(***************************************************************************)
(* Model of the ironmq broker's per-connection protocol state machine      *)
(* (ironmq/src/client/state.rs) and of the exchange registry               *)
(* (ironmq/src/exchange/manager.rs).                                       *)
(*                                                                         *)
(* One connection is modelled.  Every handler of the Connection trait is   *)
(* one action; the frame handed to the handler is recorded in `request`,   *)
(* the MaybeFrame it returns in `reply`, the commands it sends into the    *)
(* exchange manager's control channel in `control` and the messages it     *)
(* sends to exchange actors in `sent`.                                     *)
(*                                                                         *)
(* Option<T> is modelled as a sequence of length 0 (None) or 1 (Some).     *)
(* HashMap<K, V> is modelled as a function whose DOMAIN is the key set,    *)
(* HashMap<K, ()> as a set of keys.                                        *)
(*                                                                         *)
(* Further parts, each with its own specification: a queue actor           *)
(* (ironmq/src/queue/handler.rs), the path of a published message from the *)
(* connection through an exchange actor to the queues, the frame encoder   *)
(* (ironmq-codec) and the client library's driver (ironmq-client); two     *)
(* connection tasks declaring exchanges on the shared Context, consumers   *)
(* whose connections go away, a publish into a full exchange channel, and  *)
(* the client's connect handshake.                                         *)
(***************************************************************************)
EXTENDS Integers, Sequences, FiniteSets, TLC

(* ---------------------------- bounds ----------------------------------- *)

\* Channel numbers of the frames fed to the connection are 0..MaxChannel.
MaxChannel == 2

\* body_size of a content header and the length of one content body frame
\* are at most MaxBodySize.
MaxBodySize == 2

Channels == 0..MaxChannel

DataChannels == 1..MaxChannel

ExchangeNames == {"orders", "nope"}

ExchangeTypes == {"fanout", "topic"}

QueueNames == {"q1"}

VirtualHosts == {"/", "/x"}

Bytes == {"h", "i"}

DeclareFlags == {"PASSIVE", "NO_WAIT"}

\* Message commands sent to one queue actor.
MaxMessages == 3

\* Consumer endpoints (FrameChannel senders) of one queue.
Sinks == {"c1", "c2"}

\* Synchronous calls of one client.
MaxCalls == 3

CallIds == 1..MaxCalls

\* The connection tasks that share one Arc<Mutex<Context>>.
Connections == {"A", "B"}

\* Complete content messages one connection publishes.
MaxPublished == 3

\* Synchronous calls the user makes on a connection after connect.
MaxUserCalls == 3

\* Message.content values handed to a queue actor.
MessageContents == {<<"h">>, <<"h", "i">>}

(* ------------------------ program constants ---------------------------- *)

NOT_FOUND == 404

PRECONDITION_FAILED == 406

CHANNEL_ERROR == 504

NOT_ALLOWED == 530

(* ------------------------------ state ---------------------------------- *)

VARIABLES
    ctx_exchanges,        \* Context.exchanges.exchanges : name -> Exchange
    open_channels,        \* ConnectionState.open_channels
    exchanges,            \* ConnectionState.exchanges : name -> exchange endpoint
    queues,               \* ConnectionState.queues
    binding,              \* ConnectionState.binding : set of <<exchange, queue>>
    in_flight_contents,   \* ConnectionState.in_flight_contents
    request,              \* the frame the last handler was called with
    reply,                \* the MaybeFrame the last handler returned
    control,              \* ManagerCommands the last handler sent
    sent,                 \* messages the last handler sent to exchange actors
    q_commands,           \* queue_loop: the commands channel (mpsc, capacity 1)
    q_consumers,          \* queue_loop: consumers (Vec<FrameChannel>)
    q_sending,            \* queue_loop: frames of the current message not yet sent
    sink_frames,          \* frames each consumer endpoint has received
    q_log,                \* Message commands queue_loop has received, in order
    sink_closed,          \* consumer endpoints whose receiver has been dropped
    sink_failed,          \* history: endpoint -> messages enqueued before a send to it failed
    ex_inbox,             \* messages in the exchange actors' channels, not yet routed
    ex_queues,            \* exchange actors: the queue endpoints bound to each exchange
    forwarded,            \* messages the exchange actors sent to each queue's channel
    bind_log,             \* history: the bindings asked for, with their routing keys
    pub_key,              \* history: routing key of the basic.publish in flight
    enc_frame,            \* codec: the frame handed to AMQPCodec::encode
    enc_bytes,            \* codec: the bytes encode put into the buffer
    cl_socket,            \* client: the framed socket, "open" or "closed"
    cl_driver,            \* client: the socket_loop task, "running" or "ended"
    cl_requests,          \* client: requests in server_channel (mpsc)
    cl_pending,           \* client: calls whose response sender the driver holds
    cl_calls,             \* client: position of each synchronous call
    cl_response,          \* client: the oneshot channel of each call
    dc_pc,                \* declares: where each connection's exchange_declare is
    dc_args,              \* declares: the ExchangeDeclareArgs of each connection
    dc_holders,           \* declares: tasks holding a guard of the Context mutex
    dc_control,           \* declares: the manager's control channel (mpsc, capacity 1)
    dc_oneshot,           \* declares: the one-shot reply of each create_exchange
    dc_result,            \* declares: the MaybeFrame each exchange_declare returned
    dc_created,           \* history: connections that created an absent exchange
    dc_overlap,           \* history: a declare began while another was running
    conn_sending,         \* publish: the message the handler awaits ch.send(msg) with
    ex_channel,           \* publish: messages in the exchange actor's channel
    pub_log,              \* history: complete content messages, in publish order
    enq_log,              \* history: messages the exchange channel accepted
    frame_turn,           \* history: flips with every frame a handler is called with
    hs_pc,                \* handshake: where the caller of connect / open / close is
    hs_requests,          \* handshake: requests in sender_channel (mpsc, capacity 16)
    hs_waiters,           \* handshake: oneshot senders the driver holds, with the reply awaited
    hs_feedback,          \* handshake: the oneshot channel the caller awaits
    hs_out,               \* handshake: frames on the wire to the server
    hs_in,                \* handshake: frames on the wire to the client
    hs_log,               \* history: frames the driver sent and received, in order
    hs_handed             \* history: frames handed to the driver through sender_channel

conn_vars == <<ctx_exchanges, open_channels, exchanges, queues, binding,
               in_flight_contents, request, reply, control, sent>>

queue_actor_vars == <<q_commands, q_consumers, q_sending, sink_frames, q_log,
                      sink_closed, sink_failed>>

delivery_vars == <<ex_inbox, ex_queues, forwarded, bind_log, pub_key>>

codec_vars == <<enc_frame, enc_bytes>>

client_vars == <<cl_socket, cl_driver, cl_requests, cl_pending, cl_calls, cl_response>>

lock_vars == <<dc_pc, dc_args, dc_holders, dc_control, dc_oneshot, dc_result,
               dc_created, dc_overlap>>

send_vars == <<conn_sending, ex_channel, pub_log, enq_log, frame_turn>>

handshake_vars == <<hs_pc, hs_requests, hs_waiters, hs_feedback, hs_out, hs_in,
                    hs_log, hs_handed>>

ext_vars == <<lock_vars, send_vars, handshake_vars>>

actor_vars == <<queue_actor_vars, delivery_vars, codec_vars, client_vars, ext_vars>>

vars == <<conn_vars, actor_vars>>

(* ----------------------------- helpers --------------------------------- *)

None == <<>>

Some(x) == <<x>>

\* HashMap::insert
Insert(m, k, v) == [x \in DOMAIN m \cup {k} |-> IF x = k THEN v ELSE m[x]]

\* HashMap::remove
Remove(m, k) == [x \in DOMAIN m \ {k} |-> m[x]]

EmptyMap == [x \in {} |-> None]

\* All sequences over S of length 1..n.
RECURSIVE SeqsUpTo(_, _)
SeqsUpTo(S, n) ==
    IF n = 0 THEN {}
    ELSE LET shorter == SeqsUpTo(S, n - 1)
         IN  shorter \cup {<<b>> : b \in S}
                     \cup {Append(s, b) : s \in shorter, b \in S}

BodyFrames == SeqsUpTo(Bytes, MaxBodySize)

BodySizes == 0..MaxBodySize

(* ------------------------------ frames --------------------------------- *)

connection_open_ok(channel) == [type |-> "connection.open-ok", channel |-> channel]

connection_close_ok(channel) == [type |-> "connection.close-ok", channel |-> channel]

channel_open_ok(channel) == [type |-> "channel.open-ok", channel |-> channel]

channel_close_ok(channel) == [type |-> "channel.close-ok", channel |-> channel]

exchange_declare_ok(channel) == [type |-> "exchange.declare-ok", channel |-> channel]

queue_declare_ok(channel, name) ==
    [type |-> "queue.declare-ok", channel |-> channel, name |-> name]

queue_bind_ok(channel) == [type |-> "queue.bind-ok", channel |-> channel]

channel_close(channel, code, text, cm) ==
    [type |-> "channel.close", channel |-> channel, code |-> code,
     text |-> text, class_method |-> cm]

connection_close(channel, code, text, cm) ==
    [type |-> "connection.close", channel |-> channel, code |-> code,
     text |-> text, class_method |-> cm]

\* fn channel_error: Ok(Some(channel.close(channel, code, text, cid, mid)))
channel_error(channel, code, text, cm_id) ==
    Some(channel_close(channel, code, text, cm_id))

\* fn connection_error: Ok(Some(connection.close(0, code, text, cid, mid)))
connection_error(code, text, cm_id) ==
    Some(connection_close(0, code, text, cm_id))

\* RuntimeError { scope, code, text, ..Default::default() }
RuntimeError(scope, code, text) ==
    [scope |-> scope, channel |-> 0, code |-> code, text |-> text,
     class_method |-> "none"]

\* AMQPFrame::from(RuntimeError): the close frame of the error's scope.
FrameFromRuntimeError(rte) ==
    IF rte.scope = "Channel"
    THEN channel_close(rte.channel, rte.code, rte.text, rte.class_method)
    ELSE connection_close(0, rte.code, rte.text, rte.class_method)

(* ------------------------- exchange manager ---------------------------- *)

\* Exchange::from(ExchangeDeclareArgs)
Exchange(args) == [name |-> args.exchange_name, exchange_type |-> args.exchange_type]

\* create_exchange: sends ExchangeClone{name} into the control channel and
\* returns the endpoint the manager task answers with.  The manager task
\* spawned by start() is taken to be alive.
create_exchange(name) ==
    [command |-> [type |-> "ExchangeClone", name |-> name], channel |-> name]

\* declare with the equality test of the present branch dropped: a passive
\* declare of a registered name is accepted whatever its parameters.
declare_passive_unchecked(registry, exchange, passive) ==
    IF exchange.name \notin DOMAIN registry
    THEN IF passive
         THEN [ok |-> FALSE,
               err |-> RuntimeError("Channel", 404, "Exchange not found"),
               exchanges |-> registry, control |-> <<>>]
         ELSE [ok |-> TRUE,
               channel |-> create_exchange(exchange.name).channel,
               exchanges |-> Insert(registry, exchange.name, exchange),
               control |-> <<create_exchange(exchange.name).command>>]
    ELSE IF passive
         THEN [ok |-> TRUE,
               channel |-> create_exchange(exchange.name).channel,
               exchanges |-> Insert(registry, exchange.name, exchange),
               control |-> <<create_exchange(exchange.name).command>>]
         ELSE [ok |-> FALSE,
               err |-> RuntimeError("Channel", PRECONDITION_FAILED,
                                    "Exchange exists but properties are different"),
               exchanges |-> registry, control |-> <<>>]

\* declare with the passive test of the absent branch dropped: a missing
\* exchange is created by a passive declare too.
declare_passive_creates(registry, exchange, passive) ==
    IF exchange.name \notin DOMAIN registry
    THEN [ok |-> TRUE,
          channel |-> create_exchange(exchange.name).channel,
          exchanges |-> Insert(registry, exchange.name, exchange),
          control |-> <<create_exchange(exchange.name).command>>]
    ELSE IF passive /\ registry[exchange.name] = exchange
         THEN [ok |-> TRUE,
               channel |-> create_exchange(exchange.name).channel,
               exchanges |-> Insert(registry, exchange.name, exchange),
               control |-> <<create_exchange(exchange.name).command>>]
         ELSE [ok |-> FALSE,
               err |-> RuntimeError("Channel", PRECONDITION_FAILED,
                                    "Exchange exists but properties are different"),
               exchanges |-> registry, control |-> <<>>]

\* Exchanges::declare.  The result carries the Result<ExchangeChannel>
\* (ok/channel or err), the registry after the call and the commands sent.
declare(registry, exchange, passive) ==
    IF exchange.name \notin DOMAIN registry
    THEN IF passive
         THEN [ok |-> FALSE,
               err |-> RuntimeError("Channel", 404, "Exchange not found"),
               exchanges |-> registry, control |-> <<>>]
         ELSE [ok |-> TRUE,
               channel |-> create_exchange(exchange.name).channel,
               exchanges |-> Insert(registry, exchange.name, exchange),
               control |-> <<create_exchange(exchange.name).command>>]
    ELSE IF passive /\ registry[exchange.name] = exchange
         THEN [ok |-> TRUE,
               channel |-> create_exchange(exchange.name).channel,
               exchanges |-> Insert(registry, exchange.name, exchange),
               control |-> <<create_exchange(exchange.name).command>>]
         ELSE [ok |-> FALSE,
               err |-> RuntimeError("Channel", PRECONDITION_FAILED,
                                    "Exchange exists but properties are different"),
               exchanges |-> registry, control |-> <<>>]

\* exchange::declare(&mut ctx.exchanges, &args) as called by the connection.
exchange_declare_call(registry, args) ==
    declare(registry, Exchange(args), "PASSIVE" \in args.flags)

(* --------------------------- the handlers ------------------------------ *)

\* The broker and the client after construction.
InitState ==
    /\ ctx_exchanges = EmptyMap
    /\ open_channels = {}
    /\ exchanges = EmptyMap
    /\ queues = {}
    /\ binding = {}
    /\ in_flight_contents = EmptyMap
    /\ request = [type |-> "none"]
    /\ reply = None
    /\ control = <<>>
    /\ sent = <<>>
    /\ q_commands = <<>>
    /\ q_consumers = <<>>
    /\ q_sending = <<>>
    /\ sink_frames = [c \in Sinks |-> <<>>]
    /\ q_log = <<>>
    /\ sink_closed = {}
    /\ sink_failed = EmptyMap
    /\ ex_inbox = <<>>
    /\ ex_queues = [e \in ExchangeNames |-> {}]
    /\ forwarded = [q \in QueueNames |-> <<>>]
    /\ bind_log = {}
    /\ pub_key = None
    /\ cl_socket = "open"
    /\ cl_driver = "running"
    /\ cl_requests = <<>>
    /\ cl_pending = {}
    /\ cl_calls = [id \in CallIds |-> "idle"]
    /\ cl_response = [id \in CallIds |-> "none"]
    /\ dc_pc = [c \in Connections |-> "idle"]
    /\ dc_args = [c \in Connections |-> None]
    /\ dc_holders = {}
    /\ dc_control = <<>>
    /\ dc_oneshot = [c \in Connections |-> None]
    /\ dc_result = [c \in Connections |-> None]
    /\ dc_created = {}
    /\ dc_overlap = FALSE
    /\ conn_sending = None
    /\ ex_channel = <<>>
    /\ pub_log = <<>>
    /\ enq_log = <<>>
    /\ frame_turn = 0
    /\ hs_pc = "init"
    /\ hs_requests = <<>>
    /\ hs_waiters = <<>>
    /\ hs_feedback = [id |-> 0, state |-> "none"]
    /\ hs_out = <<>>
    /\ hs_in = <<>>
    /\ hs_log = <<>>
    /\ hs_handed = <<>>

Init ==
    /\ InitState
    /\ enc_frame = None
    /\ enc_bytes = <<>>

\* connection_open with the virtual host test inverted.
connection_open_inverted(channel, args) ==
    /\ request' = [type |-> "connection.open", channel |-> channel,
                   virtual_host |-> args.virtual_host]
    /\ reply' = IF args.virtual_host = "/"
                THEN connection_error(NOT_ALLOWED, "Cannot connect to virtualhost",
                                      "connection.open")
                ELSE Some(connection_open_ok(channel))
    /\ control' = <<>>
    /\ sent' = <<>>
    /\ UNCHANGED <<ctx_exchanges, open_channels, exchanges, queues, binding,
                   in_flight_contents>>

connection_open(channel, args) ==
    /\ request' = [type |-> "connection.open", channel |-> channel,
                   virtual_host |-> args.virtual_host]
    /\ reply' = IF args.virtual_host # "/"
                THEN connection_error(NOT_ALLOWED, "Cannot connect to virtualhost",
                                      "connection.open")
                ELSE Some(connection_open_ok(channel))
    /\ control' = <<>>
    /\ sent' = <<>>
    /\ UNCHANGED <<ctx_exchanges, open_channels, exchanges, queues, binding,
                   in_flight_contents>>

connection_close_handler ==
    /\ request' = [type |-> "connection.close", channel |-> 0]
    /\ reply' = Some(connection_close_ok(0))
    /\ control' = <<>>
    /\ sent' = <<>>
    /\ UNCHANGED <<ctx_exchanges, open_channels, exchanges, queues, binding,
                   in_flight_contents>>

\* channel_open without the contains_key test: the channel is inserted and
\* answered with channel.open-ok whether or not it is open already.
channel_open_unchecked(channel) ==
    /\ request' = [type |-> "channel.open", channel |-> channel]
    /\ open_channels' = open_channels \cup {channel}
    /\ reply' = Some(channel_open_ok(channel))
    /\ control' = <<>>
    /\ sent' = <<>>
    /\ UNCHANGED <<ctx_exchanges, exchanges, queues, binding, in_flight_contents>>

channel_open(channel) ==
    /\ request' = [type |-> "channel.open", channel |-> channel]
    /\ IF channel \in open_channels
       THEN /\ reply' = channel_error(channel, CHANNEL_ERROR, "Channel already opened",
                                      "channel.open")
            /\ open_channels' = open_channels
       ELSE /\ open_channels' = open_channels \cup {channel}
            /\ reply' = Some(channel_open_ok(channel))
    /\ control' = <<>>
    /\ sent' = <<>>
    /\ UNCHANGED <<ctx_exchanges, exchanges, queues, binding, in_flight_contents>>

channel_close_handler(channel) ==
    /\ request' = [type |-> "channel.close", channel |-> channel]
    /\ open_channels' = open_channels \ {channel}
    /\ reply' = Some(channel_close_ok(channel))
    /\ control' = <<>>
    /\ sent' = <<>>
    /\ UNCHANGED <<ctx_exchanges, exchanges, queues, binding, in_flight_contents>>

exchange_declare(channel, args) ==
    LET no_wait == "NO_WAIT" \in args.flags
        result == exchange_declare_call(ctx_exchanges, args)
    IN  /\ request' = [type |-> "exchange.declare", channel |-> channel,
                       exchange_name |-> args.exchange_name,
                       exchange_type |-> args.exchange_type,
                       flags |-> args.flags]
        /\ ctx_exchanges' = result.exchanges
        /\ control' = result.control
        /\ IF result.ok
           THEN /\ exchanges' = Insert(exchanges, args.exchange_name, result.channel)
                /\ reply' = IF no_wait THEN None
                            ELSE Some(exchange_declare_ok(channel))
           ELSE /\ exchanges' = exchanges
                /\ reply' = Some(FrameFromRuntimeError(
                                    [result.err EXCEPT !.channel = channel]))
        /\ sent' = <<>>
        /\ UNCHANGED <<open_channels, queues, binding, in_flight_contents>>

queue_declare(channel, args) ==
    /\ request' = [type |-> "queue.declare", channel |-> channel, name |-> args.name,
                   no_wait |-> args.no_wait]
    /\ queues' = IF args.name \notin queues THEN queues \cup {args.name} ELSE queues
    /\ reply' = Some(queue_declare_ok(channel, args.name))
    /\ control' = <<>>
    /\ sent' = <<>>
    /\ UNCHANGED <<ctx_exchanges, open_channels, exchanges, binding,
                   in_flight_contents>>

queue_bind(channel, args) ==
    LET b == <<args.exchange_name, args.queue_name>>
    IN  /\ request' = [type |-> "queue.bind", channel |-> channel,
                       exchange_name |-> args.exchange_name,
                       queue_name |-> args.queue_name,
                       routing_key |-> args.routing_key,
                       no_wait |-> args.no_wait]
        /\ binding' = IF b \notin binding THEN binding \cup {b} ELSE binding
        /\ reply' = Some(queue_bind_ok(channel))
        /\ control' = <<>>
        /\ sent' = <<>>
        /\ UNCHANGED <<ctx_exchanges, open_channels, exchanges, queues,
                       in_flight_contents>>

\* basic_publish whose error branch drops the in-flight contents of the
\* connection instead of leaving them alone.
basic_publish_clears(channel, args) ==
    /\ request' = [type |-> "basic.publish", channel |-> channel,
                   exchange_name |-> args.exchange_name]
    /\ IF args.exchange_name \notin DOMAIN exchanges
       THEN /\ reply' = channel_error(channel, NOT_FOUND, "Exchange not found",
                                      "basic.publish")
            /\ in_flight_contents' = EmptyMap
       ELSE /\ in_flight_contents' =
                   Insert(in_flight_contents, channel,
                          [channel |-> channel, exchange |-> args.exchange_name,
                           length |-> None, content |-> None])
            /\ reply' = None
    /\ control' = <<>>
    /\ sent' = <<>>
    /\ UNCHANGED <<ctx_exchanges, open_channels, exchanges, queues, binding>>

basic_publish(channel, args) ==
    /\ request' = [type |-> "basic.publish", channel |-> channel,
                   exchange_name |-> args.exchange_name]
    /\ IF args.exchange_name \notin DOMAIN exchanges
       THEN /\ reply' = channel_error(channel, NOT_FOUND, "Exchange not found",
                                      "basic.publish")
            /\ in_flight_contents' = in_flight_contents
       ELSE /\ in_flight_contents' =
                   Insert(in_flight_contents, channel,
                          [channel |-> channel, exchange |-> args.exchange_name,
                           length |-> None, content |-> None])
            /\ reply' = None
    /\ control' = <<>>
    /\ sent' = <<>>
    /\ UNCHANGED <<ctx_exchanges, open_channels, exchanges, queues, binding>>

basic_consume(channel, args) ==
    /\ request' = [type |-> "basic.consume", channel |-> channel,
                   queue_name |-> args.queue_name]
    /\ reply' = None
    /\ control' = <<>>
    /\ sent' = <<>>
    /\ UNCHANGED <<ctx_exchanges, open_channels, exchanges, queues, binding,
                   in_flight_contents>>

receive_content_header(header) ==
    /\ request' = [type |-> "content-header", channel |-> header.channel,
                   body_size |-> header.body_size]
    /\ in_flight_contents' =
          IF header.channel \in DOMAIN in_flight_contents
          THEN [in_flight_contents EXCEPT
                    ![header.channel].length = Some(header.body_size)]
          ELSE in_flight_contents
    /\ reply' = None
    /\ control' = <<>>
    /\ sent' = <<>>
    /\ UNCHANGED <<ctx_exchanges, open_channels, exchanges, queues, binding>>

receive_content_body(body) ==
    /\ request' = [type |-> "content-body", channel |-> body.channel,
                   body |-> body.body]
    /\ IF body.channel \in DOMAIN in_flight_contents
       THEN LET pc == in_flight_contents[body.channel]
                msg == [content |-> body.body]
            IN  /\ in_flight_contents' = Remove(in_flight_contents, body.channel)
                /\ sent' = IF pc.exchange \in DOMAIN exchanges
                           THEN <<[exchange |-> exchanges[pc.exchange],
                                   message |-> msg]>>
                           ELSE <<>>
       ELSE /\ in_flight_contents' = in_flight_contents
            /\ sent' = <<>>
    /\ reply' = None
    /\ control' = <<>>
    /\ UNCHANGED <<ctx_exchanges, open_channels, exchanges, queues, binding>>

(* -------------------------- specifications ----------------------------- *)

DeclareArgs ==
    [exchange_name : ExchangeNames, exchange_type : ExchangeTypes,
     flags : SUBSET DeclareFlags]

\* Method frames: connection, channel and exchange handlers.
Next ==
    \/ \E ch \in Channels, vh \in VirtualHosts :
          connection_open(ch, [virtual_host |-> vh])
          /\ UNCHANGED actor_vars
    \/ connection_close_handler
          /\ UNCHANGED actor_vars
    \/ \E ch \in Channels : channel_open(ch)
          /\ UNCHANGED actor_vars
    \/ \E ch \in Channels : channel_close_handler(ch)
          /\ UNCHANGED actor_vars
    \/ \E ch \in Channels, args \in DeclareArgs : exchange_declare(ch, args)
          /\ UNCHANGED actor_vars

Spec == Init /\ [][Next]_vars

RoutingKeys == {"a", "c"}

QueueDeclareArgs == [name : QueueNames, no_wait : BOOLEAN]

QueueBindArgs ==
    [exchange_name : ExchangeNames, queue_name : QueueNames,
     routing_key : RoutingKeys, no_wait : BOOLEAN]

\* Queue method frames: queue.declare, queue.bind and basic.consume on
\* channels that are opened and closed.
NextQueue ==
    \/ \E ch \in Channels : channel_open(ch)
          /\ UNCHANGED actor_vars
    \/ \E ch \in Channels : channel_close_handler(ch)
          /\ UNCHANGED actor_vars
    \/ \E ch \in Channels, args \in QueueDeclareArgs : queue_declare(ch, args)
          /\ UNCHANGED actor_vars
    \/ \E ch \in Channels, args \in QueueBindArgs : queue_bind(ch, args)
          /\ UNCHANGED actor_vars
    \/ \E ch \in Channels, q \in QueueNames :
          basic_consume(ch, [queue_name |-> q])
          /\ UNCHANGED actor_vars

SpecQueue == Init /\ [][NextQueue]_vars

PublishDeclareArgs ==
    [exchange_name : ExchangeNames, exchange_type : {"fanout"}, flags : {{}}]

\* Publishing: channels are opened, exchanges declared, and content is
\* streamed as basic.publish, content header and content body frames.
NextPublish ==
    \/ \E ch \in DataChannels : channel_open(ch)
          /\ UNCHANGED actor_vars
    \/ \E ch \in DataChannels, args \in PublishDeclareArgs : exchange_declare(ch, args)
          /\ UNCHANGED actor_vars
    \/ \E ch \in DataChannels, e \in ExchangeNames :
          basic_publish(ch, [exchange_name |-> e])
          /\ UNCHANGED actor_vars
    \/ \E ch \in DataChannels, n \in BodySizes :
          receive_content_header([channel |-> ch, body_size |-> n])
          /\ UNCHANGED actor_vars
    \/ \E ch \in DataChannels, b \in BodyFrames :
          receive_content_body([channel |-> ch, body |-> b])
          /\ UNCHANGED actor_vars

SpecPublish == Init /\ [][NextPublish]_vars

(* ----------------------------- queue actor ----------------------------- *)
(* queue_loop (src/ironmq/src/queue/handler.rs) owns one queue: it takes   *)
(* QueueCommands from a bounded channel and sends frames to consumers.     *)
(* Every await of the loop is a step: the recv of a command and each send  *)
(* of a frame.                                                             *)

Message(content) == [content |-> content]

\* mpsc::channel(1): the capacity of a queue's command channel.
QueueCapacity == 1

basic_deliver(channel, consumer_tag, delivery_tag, redelivered, exchange_name, routing_key) ==
    [type |-> "basic.deliver", channel |-> channel, consumer_tag |-> consumer_tag,
     delivery_tag |-> delivery_tag, redelivered |-> redelivered,
     exchange_name |-> exchange_name, routing_key |-> routing_key]

content_header(channel, size) ==
    [type |-> "content-header", channel |-> channel, body_size |-> size]

content_body(channel, payload) ==
    [type |-> "content-body", channel |-> channel, body |-> payload]

deliver_frames_header_last(message) ==
    <<basic_deliver(1, "ctag", 0, FALSE, "exchange", "rkey"),
      content_body(1, message.content),
      content_header(1, Len(message.content))>>

\* The frames queue_loop builds for one message.
deliver_frames(message) ==
    <<basic_deliver(1, "ctag", 0, FALSE, "exchange", "rkey"),
      content_header(1, Len(message.content)),
      content_body(1, message.content)>>

\* Number of Message commands sent to the queue so far.
MessagesSent ==
    Len(q_log) + Cardinality({i \in 1..Len(q_commands) : q_commands[i].type = "Message"})

\* An exchange actor sends QueueCommand::Message to the queue.
queue_message(content) ==
    /\ MessagesSent < MaxMessages
    /\ Len(q_commands) < QueueCapacity
    /\ q_commands' = Append(q_commands, [type |-> "Message", message |-> Message(content)])
    /\ UNCHANGED <<q_consumers, q_sending, sink_frames, q_log, sink_closed, sink_failed>>

\* queue_manager_loop on ManagerCommand::Consume for this queue: forwards
\* QueueCommand::Consume to the queue's channel.  Each consumer endpoint
\* subscribes at most once.
queue_manager_consume(sink) ==
    /\ \A i \in 1..Len(q_consumers) : q_consumers[i] # sink
    /\ \A i \in 1..Len(q_commands) :
          ~(q_commands[i].type = "Consume" /\ q_commands[i].sink = sink)
    /\ Len(q_commands) < QueueCapacity
    /\ q_commands' = Append(q_commands, [type |-> "Consume", sink |-> sink])
    /\ UNCHANGED <<q_consumers, q_sending, sink_frames, q_log, sink_closed, sink_failed>>

\* queue_loop receives QueueCommand::Message: the frames go to
\* consumers.get(0), if there is one.
queue_loop_message ==
    /\ q_sending = <<>>
    /\ q_commands # <<>>
    /\ Head(q_commands).type = "Message"
    /\ LET message == Head(q_commands).message
           frames == deliver_frames(message)
           target == IF q_consumers # <<>> THEN Some(q_consumers[1]) ELSE None
       IN /\ q_sending' = IF target # None
                          THEN [i \in 1..Len(frames) |-> [sink |-> target[1], frame |-> frames[i]]]
                          ELSE <<>>
          /\ q_log' = Append(q_log, [content |-> message.content,
                                     consumers |-> q_consumers,
                                     target |-> target])
    /\ q_commands' = Tail(q_commands)
    /\ UNCHANGED <<q_consumers, sink_frames, sink_closed, sink_failed>>

\* queue_loop inside `for f in frames`: c.send(f).await, whose result is
\* not looked at.  The send fails when the receiver of c has been dropped;
\* the loop goes on with the next frame.
queue_loop_send ==
    /\ q_sending # <<>>
    /\ LET s == Head(q_sending)
       IN IF s.sink \in sink_closed
          THEN /\ sink_frames' = sink_frames
               /\ sink_failed' = IF s.sink \in DOMAIN sink_failed THEN sink_failed
                                 ELSE Insert(sink_failed, s.sink, MessagesSent)
          ELSE /\ sink_frames' = [sink_frames EXCEPT ![s.sink] = Append(@, s.frame)]
               /\ sink_failed' = sink_failed
    /\ q_sending' = Tail(q_sending)
    /\ UNCHANGED <<q_commands, q_consumers, q_log, sink_closed>>

\* queue_loop receives QueueCommand::Consume: consumers.push(sink)
queue_loop_consume ==
    /\ q_sending = <<>>
    /\ q_commands # <<>>
    /\ Head(q_commands).type = "Consume"
    /\ q_consumers' = Append(q_consumers, Head(q_commands).sink)
    /\ q_commands' = Tail(q_commands)
    /\ UNCHANGED <<q_sending, sink_frames, q_log, sink_closed, sink_failed>>

\* One queue actor with the senders of its commands.
NextQueueActor ==
    \/ \E content \in MessageContents : queue_message(content)
          /\ UNCHANGED <<conn_vars, delivery_vars, codec_vars, ext_vars, client_vars>>
    \/ \E sink \in Sinks : queue_manager_consume(sink)
          /\ UNCHANGED <<conn_vars, delivery_vars, codec_vars, ext_vars, client_vars>>
    \/ queue_loop_message
          /\ UNCHANGED <<conn_vars, delivery_vars, codec_vars, ext_vars, client_vars>>
    \/ queue_loop_send
          /\ UNCHANGED <<conn_vars, delivery_vars, codec_vars, ext_vars, client_vars>>
    \/ queue_loop_consume
          /\ UNCHANGED <<conn_vars, delivery_vars, codec_vars, ext_vars, client_vars>>

SpecQueueActor == Init /\ [][NextQueueActor]_vars

\* The connection task of a consumer is dropped, and with it the receiver
\* of its frame channel.
sink_drop(sink) ==
    /\ sink \notin sink_closed
    /\ sink_closed' = sink_closed \cup {sink}
    /\ UNCHANGED <<q_commands, q_consumers, q_sending, sink_frames, q_log, sink_failed>>

\* The queue actor with consumers whose connections go away.
NextDeparture ==
    \/ \E content \in MessageContents : queue_message(content)
          /\ UNCHANGED <<conn_vars, delivery_vars, codec_vars, ext_vars, client_vars>>
    \/ \E sink \in Sinks : queue_manager_consume(sink)
          /\ UNCHANGED <<conn_vars, delivery_vars, codec_vars, ext_vars, client_vars>>
    \/ queue_loop_message
          /\ UNCHANGED <<conn_vars, delivery_vars, codec_vars, ext_vars, client_vars>>
    \/ queue_loop_send
          /\ UNCHANGED <<conn_vars, delivery_vars, codec_vars, ext_vars, client_vars>>
    \/ queue_loop_consume
          /\ UNCHANGED <<conn_vars, delivery_vars, codec_vars, ext_vars, client_vars>>
    \/ \E sink \in Sinks : sink_drop(sink)
          /\ UNCHANGED <<conn_vars, delivery_vars, codec_vars, ext_vars, client_vars>>

SpecDeparture == Init /\ [][NextDeparture]_vars

(* ------------------------ publish to delivery -------------------------- *)
(* The path of a message from a connection to the queues: the connection   *)
(* hands the assembled message to the exchange actor's channel, and the    *)
(* exchange actor forwards it to the queue endpoints bound to it.  The     *)
(* bindings asked for and the routing key of each publish are recorded as  *)
(* history: ManagerCommand::QueueBind, PublishedContent and Message carry  *)
(* no routing key.                                                         *)

MaxForwarded == 2

DeliveryChannel == 1

DeliveryExchanges == {"orders"}

DeliveryDeclareArgs ==
    [exchange_name : DeliveryExchanges, exchange_type : {"fanout", "direct"}, flags : {{}}]

DeliveryBindArgs ==
    [exchange_name : DeliveryExchanges, queue_name : QueueNames,
     routing_key : RoutingKeys, no_wait : {FALSE}]

\* Capacity of an exchange actor's channel.
ExchangeCapacity == 1

\* Exchanges::bind_queue: sends ManagerCommand::QueueBind on the control
\* channel.
bind_queue(exchange_name, queue_channel) ==
    /\ request' = [type |-> "none"]
    /\ reply' = None
    /\ control' = <<[type |-> "QueueBind", exchange_name |-> exchange_name,
                     sink |-> queue_channel]>>
    /\ sent' = <<>>
    /\ UNCHANGED <<ctx_exchanges, open_channels, exchanges, queues, binding,
                   in_flight_contents>>

\* The exchange manager task on the commands of the control channel: a
\* QueueBind is forwarded to the actor of the named exchange, which installs
\* the queue endpoint.
exchange_manager_loop(bound, commands) ==
    [e \in ExchangeNames |->
        bound[e] \cup {commands[i].sink : i \in {j \in 1..Len(commands) :
                                                  /\ commands[j].type = "QueueBind"
                                                  /\ commands[j].exchange_name = e
                                                  /\ e \in DOMAIN ctx_exchanges}}]

\* The queue endpoints an exchange actor forwards a message to.  Neither the
\* installed endpoints nor the Message carry a routing key.
route(endpoints, message) == endpoints

\* A queue.bind frame with routing key args.routing_key.  The binding is
\* noted when it is answered with queue.bind-ok and names a declared exchange.
connection_queue_bind(args) ==
    /\ queue_bind(DeliveryChannel, args)
    /\ bind_log' = IF /\ reply' = Some(queue_bind_ok(DeliveryChannel))
                      /\ args.exchange_name \in DOMAIN ctx_exchanges
                   THEN bind_log \cup {[exchange |-> args.exchange_name,
                                        queue |-> args.queue_name,
                                        routing_key |-> args.routing_key]}
                   ELSE bind_log
    /\ ex_queues' = exchange_manager_loop(ex_queues, control')
    /\ UNCHANGED <<queue_actor_vars, codec_vars, ext_vars, client_vars, ex_inbox, forwarded, pub_key>>

\* A caller that binds a queue to a declared exchange with routing key
\* `routing_key` through Exchanges::bind_queue.
manager_bind_queue(exchange_name, queue_name, routing_key) ==
    /\ exchange_name \in DOMAIN ctx_exchanges
    /\ bind_queue(exchange_name, queue_name)
    /\ bind_log' = bind_log \cup {[exchange |-> exchange_name, queue |-> queue_name,
                                   routing_key |-> routing_key]}
    /\ ex_queues' = exchange_manager_loop(ex_queues, control')
    /\ UNCHANGED <<queue_actor_vars, codec_vars, ext_vars, client_vars, ex_inbox, forwarded, pub_key>>

\* A basic.publish frame with routing key `routing_key`.
connection_basic_publish(exchange_name, routing_key) ==
    /\ basic_publish(DeliveryChannel, [exchange_name |-> exchange_name])
    /\ pub_key' = IF exchange_name \in DOMAIN exchanges THEN Some(routing_key) ELSE pub_key
    /\ UNCHANGED <<queue_actor_vars, codec_vars, ext_vars, client_vars, ex_inbox, ex_queues, forwarded, bind_log>>

\* A content body frame: ch.send(msg).await puts the message in the exchange
\* actor's channel once the channel has room.  The routing key of its
\* basic.publish and the bindings asked for so far are noted with it.
connection_content_body(payload) ==
    /\ Len(ex_inbox) < ExchangeCapacity
    /\ receive_content_body([channel |-> DeliveryChannel, body |-> payload])
    /\ ex_inbox' = ex_inbox \o [i \in 1..Len(sent') |->
                                   [exchange |-> sent'[i].exchange,
                                    message |-> sent'[i].message,
                                    routing_key |-> pub_key,
                                    bindings |-> bind_log]]
    /\ UNCHANGED <<queue_actor_vars, codec_vars, ext_vars, client_vars, ex_queues, forwarded, bind_log, pub_key>>

\* The exchange actor takes a message from its channel and sends it to the
\* channel of every queue route gives.
exchange_loop ==
    /\ ex_inbox # <<>>
    /\ \A q \in QueueNames : Len(forwarded[q]) < MaxForwarded
    /\ LET m == Head(ex_inbox)
           targets == route(ex_queues[m.exchange], m.message)
       IN forwarded' = [q \in QueueNames |->
                           IF q \in targets THEN Append(forwarded[q], m.message)
                           ELSE forwarded[q]]
    /\ ex_inbox' = Tail(ex_inbox)
    /\ UNCHANGED <<conn_vars, queue_actor_vars, codec_vars, ext_vars, client_vars, ex_queues, bind_log, pub_key>>

NextDelivery ==
    \/ \E args \in DeliveryDeclareArgs : exchange_declare(DeliveryChannel, args)
          /\ UNCHANGED actor_vars
    \/ \E q \in QueueNames : queue_declare(DeliveryChannel, [name |-> q, no_wait |-> FALSE])
          /\ UNCHANGED actor_vars
    \/ \E args \in DeliveryBindArgs : connection_queue_bind(args)
    \/ \E e \in DeliveryExchanges, q \in QueueNames, k \in RoutingKeys :
          manager_bind_queue(e, q, k)
    \/ \E q \in QueueNames : basic_consume(DeliveryChannel, [queue_name |-> q])
          /\ UNCHANGED actor_vars
    \/ \E e \in DeliveryExchanges, k \in RoutingKeys : connection_basic_publish(e, k)
    \/ receive_content_header([channel |-> DeliveryChannel, body_size |-> 1])
          /\ UNCHANGED actor_vars
    \/ connection_content_body(<<"h">>)
    \/ exchange_loop

SpecDelivery == Init /\ [][NextDelivery]_vars

(* -------------------------------- codec -------------------------------- *)
(* AMQPCodec::encode on the protocol header and on method frames.  Bytes   *)
(* are numbers 0..255, a buffer is a sequence of bytes.                    *)

MaxArgs == 2

\* AMQPValue variants used in method argument lists.
U8(v) == [type |-> "U8", value |-> v]
U16(v) == [type |-> "U16", value |-> v]
U32(v) == [type |-> "U32", value |-> v]
SimpleString(bytes) == [type |-> "SimpleString", value |-> bytes]
LongString(bytes) == [type |-> "LongString", value |-> bytes]

\* BufMut: big-endian writes.
put_u8(v) == <<v % 256>>

put_u16(v) == <<(v \div 256) % 256, v % 256>>

put_u32_little_endian(v) ==
    <<v % 256, (v \div 256) % 256, (v \div 65536) % 256, (v \div 16777216) % 256>>

put_u32(v) == <<(v \div 16777216) % 256, (v \div 65536) % 256, (v \div 256) % 256, v % 256>>

\* "test" and "longtest" as bytes.
TestBytes == <<116, 101, 115, 116>>
LongTestBytes == <<108, 111, 110, 103, 116, 101, 115, 116>>

\* The argument list of tests::encode_method_frame.
TestArgs ==
    <<U8(154), U16(4386), U32(1432778632), SimpleString(TestBytes),
      LongString(LongTestBytes)>>

\* AMQPFrame::Method(0x0205, 0x00FF00FE, args) of tests::encode_method_frame.
TestFrame == [type |-> "Method", channel |-> 517, class_method |-> 16711934,
              args |-> TestArgs]

\* The buffer tests::encode_method_frame expects.
TestExpected ==
    LET frame_header == <<1, 2, 5>>
        class_method == <<0, 255, 0, 254>>
        argbuf == class_method \o <<154>> \o <<17, 34>> \o <<85, 102, 119, 136>>
                    \o (<<4>> \o TestBytes) \o (<<0, 0, 0, 8>> \o LongTestBytes)
    IN frame_header \o put_u32(Len(argbuf)) \o argbuf \o put_u8(206)

\* The buffer tests::encode_header_frame expects: "AMQP\x00\x00\x09\x01".
HeaderExpected == <<65, 77, 81, 80, 0, 0, 9, 1>>

ArgValues ==
    {U8(154), U16(4386), U32(1432778632), SimpleString(<<>>),
     SimpleString(TestBytes), LongString(LongTestBytes)}

FrameChannels == {0, 1, 517, 65535}

ClassMethods == {16711934, 655371, 3932200}

\* The frames handed to the encoder.
Frames ==
    {[type |-> "Header"]}
    \cup [type : {"Method"}, channel : FrameChannels, class_method : ClassMethods,
          args : {<<>>, TestArgs} \cup SeqsUpTo(ArgValues, MaxArgs)]

\* A short string: 1-byte length, then the bytes.
encode_short_string(bytes) == put_u8(Len(bytes)) \o bytes

\* A long string: 4-byte length, then the bytes.
encode_long_string(bytes) == put_u32(Len(bytes)) \o bytes

encode_value(arg) ==
    CASE arg.type = "U8" -> put_u8(arg.value)
      [] arg.type = "U16" -> put_u16(arg.value)
      [] arg.type = "U32" -> put_u32(arg.value)
      [] arg.type = "SimpleString" -> encode_short_string(arg.value)
      [] arg.type = "LongString" -> encode_long_string(arg.value)

RECURSIVE encode_args(_)
encode_args(args) ==
    IF args = <<>> THEN <<>>
    ELSE encode_value(Head(args)) \o encode_args(Tail(args))

\* A method frame: the payload is the class-method id and the arguments.
encode_method_frame(channel, cm, args) ==
    LET fr == put_u32(cm) \o encode_args(args)
    IN put_u8(1) \o put_u16(channel) \o put_u32(Len(fr)) \o fr \o put_u8(206)

\* AMQPCodec::encode
encode(frame) ==
    IF frame.type = "Header" THEN HeaderExpected
    ELSE encode_method_frame(frame.channel, frame.class_method, frame.args)

\* A frame is handed to the encoder with an empty buffer.
InitCodec ==
    /\ InitState
    /\ enc_frame \in {Some(f) : f \in Frames}
    /\ enc_bytes = <<>>

encoder_encode ==
    /\ enc_frame # None
    /\ enc_bytes = <<>>
    /\ enc_bytes' = encode(enc_frame[1])
    /\ UNCHANGED <<enc_frame, conn_vars, queue_actor_vars, delivery_vars, client_vars, ext_vars>>

NextCodec == encoder_encode

SpecCodec == InitCodec /\ [][NextCodec]_vars

(* ------------------------------- client -------------------------------- *)
(* One Client of ironmq-client: callers of synchronous calls, the          *)
(* server_channel queue and the socket_loop task that owns the socket.     *)
(* A call is "idle", "waiting" (request sent, rx.await), "ok" or "error".  *)
(* A call's oneshot channel is "none" (sender alive, nothing sent), "ok"   *)
(* or "err" (a response was sent) or "dropped" (sender dropped).           *)

\* mpsc::channel(16) of create_connection.
RequestCapacity == 16

\* The calls whose request is in server_channel.
Queued == {cl_requests[i] : i \in 1..Len(cl_requests)}

\* Client::basic_consume up to rx.await: the request with the oneshot
\* sender is sent into server_channel; the send fails when the receiver is
\* gone.
basic_consume_send(id) ==
    /\ cl_calls[id] = "idle"
    /\ IF cl_driver = "ended"
       THEN /\ cl_calls' = [cl_calls EXCEPT ![id] = "error"]
            /\ cl_requests' = cl_requests
       ELSE /\ Len(cl_requests) < RequestCapacity
            /\ cl_requests' = Append(cl_requests, id)
            /\ cl_calls' = [cl_calls EXCEPT ![id] = "waiting"]
    /\ UNCHANGED <<cl_socket, cl_driver, cl_pending, cl_response>>
    /\ UNCHANGED <<conn_vars, queue_actor_vars, delivery_vars, codec_vars, ext_vars>>

basic_consume_recv_ok_on_drop(id) ==
    /\ cl_calls[id] = "waiting"
    /\ cl_response[id] # "none"
    /\ cl_calls' = [cl_calls EXCEPT ![id] =
                       CASE cl_response[id] = "ok" -> "ok"
                         [] cl_response[id] = "err" -> "error"
                         [] cl_response[id] = "dropped" -> "ok"]
    /\ UNCHANGED <<cl_socket, cl_driver, cl_requests, cl_pending, cl_response>>
    /\ UNCHANGED <<conn_vars, queue_actor_vars, delivery_vars, codec_vars, ext_vars>>

\* Client::basic_consume, match rx.await: Ok(Ok(())) is success, Ok(Err(e))
\* the error, and Err(_), the sender being dropped, ClientError 501.
basic_consume_recv(id) ==
    /\ cl_calls[id] = "waiting"
    /\ cl_response[id] # "none"
    /\ cl_calls' = [cl_calls EXCEPT ![id] =
                       CASE cl_response[id] = "ok" -> "ok"
                         [] cl_response[id] = "err" -> "error"
                         [] cl_response[id] = "dropped" -> "error"]
    /\ UNCHANGED <<cl_socket, cl_driver, cl_requests, cl_pending, cl_response>>
    /\ UNCHANGED <<conn_vars, queue_actor_vars, delivery_vars, codec_vars, ext_vars>>

\* socket_loop, receiver.recv() branch: the request goes to the client state
\* machine together with its oneshot sender.
socket_loop_request ==
    /\ cl_driver = "running"
    /\ cl_requests # <<>>
    /\ cl_pending' = cl_pending \cup {Head(cl_requests)}
    /\ cl_requests' = Tail(cl_requests)
    /\ UNCHANGED <<cl_socket, cl_driver, cl_calls, cl_response>>
    /\ UNCHANGED <<conn_vars, queue_actor_vars, delivery_vars, codec_vars, ext_vars>>

\* socket_loop, stream.next() = Some(Ok(frame)): the frame answers a pending
\* call, whose waiter is given the outcome.
socket_loop_frame(id, outcome) ==
    /\ cl_driver = "running"
    /\ cl_socket = "open"
    /\ id \in cl_pending
    /\ cl_response' = [cl_response EXCEPT ![id] = outcome]
    /\ cl_pending' = cl_pending \ {id}
    /\ UNCHANGED <<cl_socket, cl_driver, cl_requests, cl_calls>>
    /\ UNCHANGED <<conn_vars, queue_actor_vars, delivery_vars, codec_vars, ext_vars>>

\* The peer closes the socket or the transport is lost.
socket_close ==
    /\ cl_socket = "open"
    /\ cl_socket' = "closed"
    /\ UNCHANGED <<cl_driver, cl_requests, cl_pending, cl_calls, cl_response>>
    /\ UNCHANGED <<conn_vars, queue_actor_vars, delivery_vars, codec_vars, ext_vars>>

\* The oneshot senders the client state machine holds are dropped with it.
client_sm_dropped == cl_pending

\* The oneshot channels once the socket_loop task has ended: the receiver of
\* server_channel is dropped with the requests in it, and so are the
\* senders held for pending calls.
task_dropped ==
    [id \in CallIds |->
        IF id \in Queued \cup client_sm_dropped /\ cl_response[id] = "none"
        THEN "dropped" ELSE cl_response[id]]

\* socket_loop, stream.next() = None: "Connection is closed", return Ok(()).
socket_loop_closed ==
    /\ cl_driver = "running"
    /\ cl_socket = "closed"
    /\ cl_driver' = "ended"
    /\ cl_response' = task_dropped
    /\ cl_requests' = <<>>
    /\ cl_pending' = {}
    /\ UNCHANGED <<cl_socket, cl_calls>>
    /\ UNCHANGED <<conn_vars, queue_actor_vars, delivery_vars, codec_vars, ext_vars>>

\* socket_loop ends while the socket is open: unimplemented!() on an
\* outcome that is no frame, or an error returned by `?`.
socket_loop_abort ==
    /\ cl_driver = "running"
    /\ cl_socket = "open"
    /\ cl_driver' = "ended"
    /\ cl_response' = task_dropped
    /\ cl_requests' = <<>>
    /\ cl_pending' = {}
    /\ UNCHANGED <<cl_socket, cl_calls>>
    /\ UNCHANGED <<conn_vars, queue_actor_vars, delivery_vars, codec_vars, ext_vars>>

NextClient ==
    \/ \E id \in CallIds : basic_consume_send(id)
    \/ \E id \in CallIds : basic_consume_recv(id)
    \/ socket_loop_request
    \/ \E id \in CallIds, outcome \in {"ok", "err"} : socket_loop_frame(id, outcome)
    \/ socket_close
    \/ socket_loop_closed
    \/ socket_loop_abort

\* The runtime runs every task that can run: the socket_loop task sees the
\* end of the stream, and a caller is woken when its oneshot channel is
\* answered or dropped.
FairClient ==
    /\ WF_vars(socket_loop_closed)
    /\ \A id \in CallIds : WF_vars(basic_consume_recv(id))

SpecClient == Init /\ [][NextClient]_vars /\ FairClient

(* ------------------------ channels and content ------------------------- *)
(* Channels are opened and closed while content is published, and another *)
(* connection of the same broker declares exchanges in the shared Context. *)

\* exchange_declare run by another connection that holds the same
\* Arc<Mutex<Context>>: the registry of the context and the manager's
\* control channel are shared, the maps of ConnectionState are not.
peer_exchange_declare(args) ==
    LET result == exchange_declare_call(ctx_exchanges, args)
    IN  /\ ctx_exchanges' = result.exchanges
        /\ control' = result.control
        /\ request' = [type |-> "none"]
        /\ reply' = None
        /\ sent' = <<>>
        /\ UNCHANGED <<open_channels, exchanges, queues, binding, in_flight_contents>>

NextChannels ==
    \/ \E ch \in DataChannels : channel_open(ch)
          /\ UNCHANGED actor_vars
    \/ \E ch \in DataChannels : channel_close_handler(ch)
          /\ UNCHANGED actor_vars
    \/ \E ch \in DataChannels, args \in PublishDeclareArgs : exchange_declare(ch, args)
          /\ UNCHANGED actor_vars
    \/ \E args \in PublishDeclareArgs : peer_exchange_declare(args)
          /\ UNCHANGED actor_vars
    \/ \E ch \in DataChannels, e \in ExchangeNames :
          basic_publish(ch, [exchange_name |-> e])
          /\ UNCHANGED actor_vars
    \/ \E ch \in DataChannels :
          receive_content_body([channel |-> ch, body |-> <<"h">>])
          /\ UNCHANGED actor_vars

SpecChannels == Init /\ [][NextChannels]_vars

(* ------------------------ concurrent declares -------------------------- *)
(* Two connection tasks run exchange_declare on the shared Context.  Each  *)
(* action is the code one task runs between two suspension points: the     *)
(* await of the Context mutex, the await of the send into the manager's    *)
(* control channel and the await of the one-shot reply.                    *)

DeclareChannel == 1

\* The MaybeFrame of exchange_declare for the Result of exchange::declare.
exchange_declare_reply(channel, args, result) ==
    IF result.ok
    THEN IF "NO_WAIT" \in args.flags THEN None
         ELSE Some(exchange_declare_ok(channel))
    ELSE Some(FrameFromRuntimeError([result.err EXCEPT !.channel = channel]))

\* The Context mutex hands its guard to any task that asks for it, whoever
\* holds one.
context_lock_shared(holders) == TRUE

\* self.context.lock().await completes when no task holds the guard.
context_lock(holders) == holders = {}

\* The connection reads an exchange.declare frame and calls the handler,
\* which suspends at self.context.lock().await.
declare_called(c, args) ==
    /\ dc_pc[c] = "idle"
    /\ dc_pc' = [dc_pc EXCEPT ![c] = "lock"]
    /\ dc_args' = [dc_args EXCEPT ![c] = Some(args)]
    /\ dc_overlap' = (dc_overlap \/ \E d \in Connections \ {c} :
                                        dc_pc[d] \in {"lock", "send", "recv"})
    /\ UNCHANGED <<ctx_exchanges, dc_holders, dc_control, dc_oneshot, dc_result,
                   dc_created>>

\* The guard is acquired and Exchanges::declare runs up to its first
\* suspension: the error branches return at once, the handler ends and its
\* guard is dropped; the other branches reach control.send(..).await inside
\* create_exchange with the guard `ctx` still alive.
declare_locked(c) ==
    LET args == dc_args[c][1]
        result == exchange_declare_call(ctx_exchanges, args)
    IN  /\ dc_pc[c] = "lock"
        /\ context_lock(dc_holders)
        /\ IF result.ok
           THEN /\ dc_pc' = [dc_pc EXCEPT ![c] = "send"]
                /\ dc_holders' = dc_holders \cup {c}
                /\ dc_created' = IF args.exchange_name \notin DOMAIN ctx_exchanges
                                 THEN dc_created \cup {c} ELSE dc_created
                /\ dc_result' = dc_result
           ELSE /\ dc_pc' = [dc_pc EXCEPT ![c] = "done"]
                /\ dc_result' = [dc_result EXCEPT ![c] =
                        Some([ok |-> FALSE,
                              reply |-> exchange_declare_reply(DeclareChannel, args,
                                                               result)])]
                /\ UNCHANGED <<dc_holders, dc_created>>
        /\ UNCHANGED <<ctx_exchanges, dc_args, dc_control, dc_oneshot, dc_overlap>>

\* create_exchange: control.send(ExchangeClone{name, clone: tx}).await
\* completes when the channel of capacity 1 has room.
create_exchange_send(c) ==
    /\ dc_pc[c] = "send"
    /\ Len(dc_control) < 1
    /\ dc_control' = Append(dc_control,
                            [type |-> "ExchangeClone",
                             name |-> dc_args[c][1].exchange_name, clone |-> c])
    /\ dc_pc' = [dc_pc EXCEPT ![c] = "recv"]
    /\ UNCHANGED <<ctx_exchanges, dc_args, dc_holders, dc_oneshot, dc_result,
                   dc_created, dc_overlap>>

\* The manager task takes the command and answers on its one-shot sender
\* with the endpoint of the exchange.
manager_exchange_clone ==
    /\ dc_control # <<>>
    /\ LET cmd == Head(dc_control)
       IN  dc_oneshot' = [dc_oneshot EXCEPT ![cmd.clone] = Some(cmd.name)]
    /\ dc_control' = Tail(dc_control)
    /\ UNCHANGED <<ctx_exchanges, dc_pc, dc_args, dc_holders, dc_result, dc_created,
                   dc_overlap>>

\* rx.await completes: Exchanges::declare inserts the exchange and returns
\* Ok, exchange_declare builds its reply and returns, dropping the guard.
create_exchange_recv(c) ==
    LET args == dc_args[c][1]
    IN  /\ dc_pc[c] = "recv"
        /\ dc_oneshot[c] # None
        /\ ctx_exchanges' = Insert(ctx_exchanges, args.exchange_name, Exchange(args))
        /\ dc_result' = [dc_result EXCEPT ![c] =
                Some([ok |-> TRUE,
                      reply |-> exchange_declare_reply(DeclareChannel, args,
                                                       [ok |-> TRUE])])]
        /\ dc_oneshot' = [dc_oneshot EXCEPT ![c] = None]
        /\ dc_holders' = dc_holders \ {c}
        /\ dc_pc' = [dc_pc EXCEPT ![c] = "done"]
        /\ UNCHANGED <<dc_args, dc_control, dc_created, dc_overlap>>

\* What the declares leave alone.
declare_frame ==
    UNCHANGED <<open_channels, exchanges, queues, binding, in_flight_contents,
                request, reply, control, sent, queue_actor_vars, delivery_vars,
                codec_vars, client_vars, send_vars, handshake_vars>>

NextDeclares ==
    \/ \E c \in Connections, args \in DeclareArgs : declare_called(c, args)
          /\ declare_frame
    \/ \E c \in Connections : declare_locked(c)
          /\ declare_frame
    \/ \E c \in Connections : create_exchange_send(c)
          /\ declare_frame
    \/ manager_exchange_clone
          /\ declare_frame
    \/ \E c \in Connections : create_exchange_recv(c)
          /\ declare_frame

SpecDeclares == Init /\ [][NextDeclares]_vars

(* --------------------- publishing to a full channel -------------------- *)
(* receive_content_body is split at its suspension point ch.send(msg).await *)
(* the handlers take &mut self, so no other handler of the connection runs *)
(* while the future of one is pending.                                     *)

\* The connection calls a handler with the next frame it read.
handle_frame(handler) ==
    /\ conn_sending = None
    /\ handler
    /\ frame_turn' = 1 - frame_turn
    /\ UNCHANGED <<conn_sending, ex_channel, pub_log, enq_log>>

\* receive_content_body up to ch.send(msg).await: the in-flight content is
\* removed and, when the connection has the endpoint of the exchange, the
\* message is handed to the send.
content_body_received(payload) ==
    /\ conn_sending = None
    /\ Len(pub_log) < MaxPublished
    /\ receive_content_body([channel |-> DeliveryChannel, body |-> payload])
    /\ frame_turn' = 1 - frame_turn
    /\ LET msgs == [i \in 1..Len(sent') |->
                       [exchange |-> sent'[i].exchange,
                        message |-> sent'[i].message,
                        number |-> Len(pub_log) + 1]]
       IN  /\ conn_sending' = msgs
           /\ pub_log' = pub_log \o msgs
    /\ UNCHANGED <<ex_channel, enq_log>>

\* ch.send(msg) without the wait for room: the message is put in the
\* channel if there is room and is dropped otherwise.
content_body_try_send ==
    /\ conn_sending # None
    /\ IF Len(ex_channel) < ExchangeCapacity
       THEN /\ ex_channel' = Append(ex_channel, conn_sending[1])
            /\ enq_log' = Append(enq_log, conn_sending[1])
       ELSE UNCHANGED <<ex_channel, enq_log>>
    /\ conn_sending' = None
    /\ UNCHANGED <<conn_vars, pub_log, frame_turn>>

\* ch.send(msg).await completes once the channel of the exchange actor has
\* room; the handler returns Ok(None).
content_body_send ==
    /\ conn_sending # None
    /\ Len(ex_channel) < ExchangeCapacity
    /\ ex_channel' = Append(ex_channel, conn_sending[1])
    /\ enq_log' = Append(enq_log, conn_sending[1])
    /\ conn_sending' = None
    /\ UNCHANGED <<conn_vars, pub_log, frame_turn>>

\* The exchange actor takes a message from its channel.
exchange_recv ==
    /\ ex_channel # <<>>
    /\ ex_channel' = Tail(ex_channel)
    /\ UNCHANGED <<conn_vars, conn_sending, pub_log, enq_log, frame_turn>>

\* What publishing leaves alone.
publish_frame ==
    UNCHANGED <<queue_actor_vars, delivery_vars, codec_vars, client_vars, lock_vars,
                handshake_vars>>

NextBackpressure ==
    \/ \E args \in DeliveryDeclareArgs :
          handle_frame(exchange_declare(DeliveryChannel, args))
          /\ publish_frame
    \/ \E e \in ExchangeNames :
          handle_frame(basic_publish(DeliveryChannel, [exchange_name |-> e]))
          /\ publish_frame
    \/ \E size \in BodySizes :
          handle_frame(receive_content_header([channel |-> DeliveryChannel,
                                               body_size |-> size]))
          /\ publish_frame
    \/ \E payload \in MessageContents : content_body_received(payload)
          /\ publish_frame
    \/ content_body_send
          /\ publish_frame
    \/ exchange_recv
          /\ publish_frame

\* The exchange actor is alive and keeps receiving, and a sender waiting for
\* room is woken when there is room.
FairBackpressure ==
    /\ WF_vars(content_body_send /\ publish_frame)
    /\ WF_vars(exchange_recv /\ publish_frame)

SpecBackpressure == Init /\ [][NextBackpressure]_vars /\ FairBackpressure

(* --------------------------- client handshake -------------------------- *)
(* connect and the calls that follow it, the driver task between the       *)
(* request channel and the socket, and a server that answers each frame.   *)

AMQPHeader == [type |-> "header"]

connection_start_ok_frame == [type |-> "connection.start-ok", channel |-> 0]

connection_tune_ok_frame == [type |-> "connection.tune-ok", channel |-> 0]

connection_open_frame(virtual_host) ==
    [type |-> "connection.open", channel |-> 0, virtual_host |-> virtual_host]

connection_close_frame == [type |-> "connection.close", channel |-> 0]

\* The frames that answer a request.
expected_reply(frame) ==
    CASE frame.type = "header" -> {"connection.start"}
      [] frame.type = "connection.start-ok" -> {"connection.tune"}
      [] frame.type = "connection.open" -> {"connection.open-ok", "connection.close"}
      [] frame.type = "connection.close" -> {"connection.close-ok"}
      [] OTHER -> {}

\* Request{frame, feedback: Some(tx)} is sent into sender_channel; the
\* caller then awaits rx.
sync_call(frame) ==
    /\ Len(hs_requests) < RequestCapacity
    /\ hs_requests' = Append(hs_requests,
                             [frame |-> frame, feedback |-> Some(hs_feedback.id + 1)])
    /\ hs_feedback' = [id |-> hs_feedback.id + 1, state |-> "none"]
    /\ hs_handed' = Append(hs_handed, frame)

\* Request{frame, feedback: None} is sent into sender_channel.
call(frame) ==
    /\ Len(hs_requests) < RequestCapacity
    /\ hs_requests' = Append(hs_requests, [frame |-> frame, feedback |-> None])
    /\ hs_handed' = Append(hs_handed, frame)
    /\ hs_feedback' = hs_feedback

\* connect: the protocol header is requested first.
connect_header ==
    /\ hs_pc = "init"
    /\ sync_call(AMQPHeader)
    /\ hs_pc' = "await_start"
    /\ UNCHANGED <<hs_waiters, hs_out, hs_in, hs_log>>

\* connect with the first rx.await left out: connection.start-ok is
\* requested as soon as the header has been.
connect_start_ok_no_wait ==
    /\ hs_pc = "await_start"
    /\ sync_call(connection_start_ok_frame)
    /\ hs_pc' = "await_tune"
    /\ UNCHANGED <<hs_waiters, hs_out, hs_in, hs_log>>

\* connect: rx.await of the header request has completed, connection.start-ok
\* is requested.
connect_start_ok ==
    /\ hs_pc = "await_start"
    /\ hs_feedback.state = "ok"
    /\ sync_call(connection_start_ok_frame)
    /\ hs_pc' = "await_tune"
    /\ UNCHANGED <<hs_waiters, hs_out, hs_in, hs_log>>

\* connect: rx.await of the start-ok request has completed ("wait for the
\* connection tune"), connection.tune-ok is requested without feedback and
\* connect returns the connection.
connect_tune_ok ==
    /\ hs_pc = "await_tune"
    /\ hs_feedback.state = "ok"
    /\ call(connection_tune_ok_frame)
    /\ hs_pc' = "connected"
    /\ UNCHANGED <<hs_waiters, hs_out, hs_in, hs_log>>

\* The user calls open or close on the connection connect has returned.
UserCalls ==
    Cardinality({i \in 1..Len(hs_handed) :
                    hs_handed[i].type \in {"connection.open", "connection.close"}})

open(virtual_host) ==
    /\ hs_pc = "connected"
    /\ UserCalls < MaxUserCalls
    /\ sync_call(connection_open_frame(virtual_host))
    /\ hs_pc' = "await_reply"
    /\ UNCHANGED <<hs_waiters, hs_out, hs_in, hs_log>>

close ==
    /\ hs_pc = "connected"
    /\ UserCalls < MaxUserCalls
    /\ sync_call(connection_close_frame)
    /\ hs_pc' = "await_reply"
    /\ UNCHANGED <<hs_waiters, hs_out, hs_in, hs_log>>

\* open / close: rx.await has completed, the call returns.
call_returns ==
    /\ hs_pc = "await_reply"
    /\ hs_feedback.state # "none"
    /\ hs_pc' = "connected"
    /\ UNCHANGED <<hs_requests, hs_waiters, hs_feedback, hs_out, hs_in, hs_log,
                   hs_handed>>

\* socket_loop, receiver.recv() branch: the frame of the request is written
\* to the socket and the oneshot sender, if there is one, is kept until the
\* reply arrives.
socket_loop_send ==
    /\ hs_requests # <<>>
    /\ LET req == Head(hs_requests)
       IN  /\ hs_out' = Append(hs_out, req.frame)
           /\ hs_log' = Append(hs_log, [dir |-> "sent", frame |-> req.frame])
           /\ hs_waiters' = IF req.feedback # None
                            THEN Append(hs_waiters,
                                        [id |-> req.feedback[1],
                                         expect |-> expected_reply(req.frame)])
                            ELSE hs_waiters
    /\ hs_requests' = Tail(hs_requests)
    /\ UNCHANGED <<hs_pc, hs_feedback, hs_in, hs_handed>>

\* The waiters without the first one that awaits a frame of this type.
fulfil(waiters, type) ==
    LET hits == {i \in 1..Len(waiters) : type \in waiters[i].expect}
    IN  IF hits = {} THEN [waiter |-> None, rest |-> waiters]
        ELSE LET i == CHOOSE j \in hits : \A k \in hits : j <= k
             IN  [waiter |-> Some(waiters[i]),
                  rest |-> SubSeq(waiters, 1, i - 1)
                              \o SubSeq(waiters, i + 1, Len(waiters))]

\* socket_loop, stream.next() = Some(Ok(frame)): the frame is matched with
\* the pending request it answers, whose waiter is fulfilled; a closed
\* oneshot channel is not noticed.
socket_loop_recv ==
    /\ hs_in # <<>>
    /\ LET frame == Head(hs_in)
           f == fulfil(hs_waiters, frame.type)
       IN  /\ hs_log' = Append(hs_log, [dir |-> "received", frame |-> frame])
           /\ hs_waiters' = f.rest
           /\ hs_feedback' =
                 IF f.waiter # None /\ f.waiter[1].id = hs_feedback.id
                 THEN [hs_feedback EXCEPT !.state =
                          IF frame.type = "connection.close" THEN "err" ELSE "ok"]
                 ELSE hs_feedback
    /\ hs_in' = Tail(hs_in)
    /\ UNCHANGED <<hs_pc, hs_requests, hs_out, hs_handed>>

\* The frames the server answers a frame with.
server_reply(frame) ==
    CASE frame.type = "header" -> <<[type |-> "connection.start", channel |-> 0]>>
      [] frame.type = "connection.start-ok" ->
            <<[type |-> "connection.tune", channel |-> 0]>>
      [] frame.type = "connection.open" ->
            IF frame.virtual_host = "/"
            THEN <<connection_open_ok(0)>>
            ELSE connection_error(NOT_ALLOWED, "Cannot connect to virtualhost",
                                  "connection.open")
      [] frame.type = "connection.close" -> <<connection_close_ok(0)>>
      [] OTHER -> <<>>

\* The server reads a frame and writes its answer.
server_step ==
    /\ hs_out # <<>>
    /\ hs_in' = hs_in \o server_reply(Head(hs_out))
    /\ hs_out' = Tail(hs_out)
    /\ UNCHANGED <<hs_pc, hs_requests, hs_waiters, hs_feedback, hs_log, hs_handed>>

\* What the handshake leaves alone.
handshake_frame ==
    UNCHANGED <<conn_vars, queue_actor_vars, delivery_vars, codec_vars, client_vars,
                lock_vars, send_vars>>

NextHandshake ==
    \/ connect_header /\ handshake_frame
    \/ connect_start_ok /\ handshake_frame
    \/ connect_tune_ok /\ handshake_frame
    \/ \E vh \in VirtualHosts : open(vh) /\ handshake_frame
    \/ close /\ handshake_frame
    \/ call_returns /\ handshake_frame
    \/ socket_loop_send /\ handshake_frame
    \/ socket_loop_recv /\ handshake_frame
    \/ server_step /\ handshake_frame

SpecHandshake == Init /\ [][NextHandshake]_vars

TypeOK ==
    /\ DOMAIN ctx_exchanges \subseteq ExchangeNames
    /\ open_channels \subseteq Channels
    /\ DOMAIN exchanges \subseteq ExchangeNames
    /\ queues \subseteq QueueNames
    /\ binding \subseteq ExchangeNames \X QueueNames
    /\ DOMAIN in_flight_contents \subseteq Channels
    /\ Len(reply) <= 1
    /\ Len(control) <= 1
    /\ Len(sent) <= 1

(* ------------------------- claim vocabulary ---------------------------- *)

\* The reply that tells a successful exchange.declare: exchange.declare-ok
\* on the request's channel, or no frame when the request carries NO_WAIT.
DeclareOkReply(r) ==
    IF "NO_WAIT" \in r.flags THEN None ELSE Some(exchange_declare_ok(r.channel))

\* The reply is the close frame `type` on `channel` with reply code `code`.
IsClose(r, type, channel, code) ==
    /\ Len(r) = 1
    /\ r[1].type = type
    /\ r[1].channel = channel
    /\ r[1].code = code

\* Bytes accumulated in a PublishedContent.
Accumulated(pc) == IF pc.content = None THEN <<>> ELSE pc.content[1]

MethodsOnChannel ==
    {"exchange.declare", "queue.declare", "queue.bind", "basic.publish",
     "basic.consume"}

(* ------------------------------ claims --------------------------------- *)

\* C1: a non-passive exchange.declare whose parameters equal those of the
\* exchange already registered under that name (registered by an earlier
\* successful declare) succeeds: exchange.declare-ok is the reply (no frame
\* with NO_WAIT), the connection holds a handle for the name, and the
\* registry still maps the name to the same parameters.
C1_DeclareIdempotent ==
    [][ ( /\ request'.type = "exchange.declare"
          /\ "PASSIVE" \notin request'.flags
          /\ request'.exchange_name \in DOMAIN ctx_exchanges
          /\ ctx_exchanges[request'.exchange_name] = Exchange(request') )
        => ( /\ reply' = DeclareOkReply(request')
             /\ request'.exchange_name \in DOMAIN exchanges'
             /\ ctx_exchanges' = ctx_exchanges ) ]_vars

\* C2: an exchange.declare naming a registered exchange with a different
\* type fails with a Channel-scoped RuntimeError of code 406, answered as
\* channel.close(406) on the request's channel, and the registry is left
\* unchanged.
C2_RedeclareConflict ==
    [][ ( /\ request'.type = "exchange.declare"
          /\ request'.exchange_name \in DOMAIN ctx_exchanges
          /\ ctx_exchanges[request'.exchange_name].exchange_type
                # request'.exchange_type )
        => ( /\ LET r == declare(ctx_exchanges, Exchange(request'),
                                 "PASSIVE" \in request'.flags)
                IN  /\ ~r.ok
                    /\ r.err.scope = "Channel"
                    /\ r.err.code = 406
             /\ IsClose(reply', "channel.close", request'.channel, 406)
             /\ ctx_exchanges' = ctx_exchanges
             /\ exchanges' = exchanges ) ]_vars

\* C2 witness: a declare of a registered name with another type has just
\* been refused with 406.
C2_Witness ==
    /\ request.type = "exchange.declare"
    /\ request.exchange_name \in DOMAIN ctx_exchanges
    /\ ctx_exchanges[request.exchange_name].exchange_type # request.exchange_type
    /\ IsClose(reply, "channel.close", request.channel, 406)

\* C3: a passive exchange.declare of a name that is not registered is
\* answered with channel.close(404) on the request's channel, sends no
\* command to the exchange manager, and leaves the name absent from the
\* registry and from the connection (so the next passive declare of it
\* meets the same state and fails the same way).
C3_PassiveDeclareMissing ==
    [][ ( /\ request'.type = "exchange.declare"
          /\ "PASSIVE" \in request'.flags
          /\ request'.exchange_name \notin DOMAIN ctx_exchanges )
        => ( /\ IsClose(reply', "channel.close", request'.channel, 404)
             /\ control' = <<>>
             /\ request'.exchange_name \notin DOMAIN ctx_exchanges'
             /\ ctx_exchanges' = ctx_exchanges
             /\ exchanges' = exchanges ) ]_vars

\* C3 witness: a passive declare of an absent name has been refused with 404.
C3_Witness ==
    /\ request.type = "exchange.declare"
    /\ "PASSIVE" \in request.flags
    /\ request.exchange_name \notin DOMAIN ctx_exchanges
    /\ IsClose(reply, "channel.close", request.channel, 404)

\* C4: a basic.publish on channel N naming an exchange that was never
\* declared is answered with channel.close(404) on N and records no
\* in-flight content, and a content body that follows on N sends no message
\* to any exchange.
C4_PublishMissingExchange ==
    [][ /\ ( ( /\ request'.type = "basic.publish"
               /\ request'.exchange_name \notin DOMAIN ctx_exchanges )
             => ( /\ IsClose(reply', "channel.close", request'.channel, 404)
                  /\ DOMAIN in_flight_contents' \subseteq DOMAIN in_flight_contents ) )
        /\ ( ( /\ request.type = "basic.publish"
               /\ IsClose(reply, "channel.close", request.channel, 404)
               /\ request'.type = "content-body"
               /\ request'.channel = request.channel )
             => sent' = <<>> ) ]_vars

\* C5: a content body on a channel whose in-flight content has received its
\* header (body_size N) dispatches nothing and keeps the slot while the
\* accumulated length stays below N; when the accumulated length reaches N
\* exactly one message, holding the concatenation of the bodies, is sent to
\* the exchange actor and the slot is cleared.
C5_ContentAssembly ==
    [][ ( /\ request'.type = "content-body"
          /\ request'.channel \in DOMAIN in_flight_contents
          /\ in_flight_contents[request'.channel].length # None
          /\ in_flight_contents[request'.channel].exchange \in DOMAIN exchanges )
        => LET pc == in_flight_contents[request'.channel]
               all == Accumulated(pc) \o request'.body
           IN  /\ Len(all) < pc.length[1]
                    => /\ sent' = <<>>
                       /\ request'.channel \in DOMAIN in_flight_contents'
               /\ Len(all) = pc.length[1]
                    => /\ Len(sent') = 1
                       /\ sent'[1].exchange = exchanges[pc.exchange]
                       /\ sent'[1].message.content = all
                       /\ request'.channel \notin DOMAIN in_flight_contents' ]_vars

\* C6: connection.open with virtual host "/" is answered with
\* connection.open-ok; with any other virtual host it is answered with
\* connection.close on channel 0 with code 530.
C6_VirtualHost ==
    request.type = "connection.open"
        => IF request.virtual_host = "/"
           THEN reply = Some(connection_open_ok(request.channel))
           ELSE IsClose(reply, "connection.close", 0, 530)

\* C6 witness: a connection.open for "/x" has been refused with 530.
C6_Witness ==
    /\ request.type = "connection.open"
    /\ request.virtual_host = "/x"
    /\ IsClose(reply, "connection.close", 0, 530)

\* C7: a basic.publish on channel c naming a missing exchange is answered
\* with channel.close(404) on c and changes neither the open channel set
\* nor any channel's in-flight content; an exchange.declare of a not yet
\* registered exchange that follows on another channel d is answered with
\* exchange.declare-ok on d.
C7_ChannelErrorIsolation ==
    [][ /\ ( ( /\ request'.type = "basic.publish"
               /\ request'.exchange_name \notin DOMAIN exchanges )
             => ( /\ IsClose(reply', "channel.close", request'.channel, 404)
                  /\ open_channels' = open_channels
                  /\ in_flight_contents' = in_flight_contents ) )
        /\ ( ( /\ request.type = "basic.publish"
               /\ IsClose(reply, "channel.close", request.channel, 404)
               /\ request'.type = "exchange.declare"
               /\ request'.channel # request.channel
               /\ request'.exchange_name \notin DOMAIN ctx_exchanges )
             => ( /\ reply' = Some(exchange_declare_ok(request'.channel))
                  /\ open_channels' = open_channels ) ) ]_vars

\* C7 witness: channels 1 and 2 are open, channel 2 has content in flight,
\* and a publish on channel 1 has just been refused with 404.
C7_Witness ==
    /\ {1, 2} \subseteq open_channels
    /\ 2 \in DOMAIN in_flight_contents
    /\ request.type = "basic.publish"
    /\ request.channel = 1
    /\ IsClose(reply, "channel.close", 1, 404)

\* C8: channel.open on a number in the open channel set is answered with an
\* error of code 504 and leaves the set unchanged; on a number not in the
\* set it adds exactly that number and is answered with channel.open-ok on
\* the same channel.
C8_ChannelOpen ==
    [][ request'.type = "channel.open"
        => IF request'.channel \in open_channels
           THEN /\ IsClose(reply', "channel.close", request'.channel, 504)
                /\ open_channels' = open_channels
           ELSE /\ open_channels' = open_channels \cup {request'.channel}
                /\ reply' = Some(channel_open_ok(request'.channel)) ]_vars

\* C8 witness: a channel.open for an open channel has been refused with 504.
C8_Witness ==
    /\ request.type = "channel.open"
    /\ request.channel \in open_channels
    /\ IsClose(reply, "channel.close", request.channel, 504)

\* C9: every member of the open channel set is a number in 1..65535;
\* channel 0 is never an open channel.
C9_OpenChannelRange ==
    \A c \in open_channels : c \in 1..65535

\* C10: a method frame (exchange.declare, queue.declare, queue.bind,
\* basic.publish, basic.consume) on a channel N > 0 that is not in the open
\* channel set fails with code 504 and has no side effect.
C10_DispatchRequiresOpenChannel ==
    [][ ( /\ request'.type \in MethodsOnChannel
          /\ request'.channel > 0
          /\ request'.channel \notin open_channels )
        => ( /\ Len(reply') = 1
             /\ reply'[1].type \in {"channel.close", "connection.close"}
             /\ reply'[1].code = 504
             /\ control' = <<>>
             /\ UNCHANGED <<ctx_exchanges, open_channels, exchanges, queues,
                            binding, in_flight_contents>> ) ]_vars

\* C11: while a publish is in flight on channel N, a method frame on N
\* (a second basic.publish, an exchange.declare) or a content body that
\* arrives before the content header is answered with channel.close(505)
\* on N; nothing is dispatched, and the in-flight content is not replaced.
C11_UnexpectedFrame ==
    [][ ( /\ request'.type \in {"basic.publish", "exchange.declare", "content-body"}
          /\ request'.channel \in DOMAIN in_flight_contents
          /\ request'.type = "content-body"
                => in_flight_contents[request'.channel].length = None )
        => ( /\ IsClose(reply', "channel.close", request'.channel, 505)
             /\ sent' = <<>>
             /\ request'.channel \in DOMAIN in_flight_contents'
                   => in_flight_contents'[request'.channel]
                         = in_flight_contents[request'.channel] ) ]_vars

\* C12: an exchange.declare, queue.declare or queue.bind that succeeds (is
\* not answered with a close frame) is answered with exactly its *-ok frame
\* on the request's channel when the request does not carry no-wait, and
\* with no frame when it does.
RequestNoWait(r) ==
    IF r.type = "exchange.declare" THEN "NO_WAIT" \in r.flags ELSE r.no_wait

MatchingOk(r) ==
    IF r.type = "exchange.declare" THEN exchange_declare_ok(r.channel)
    ELSE IF r.type = "queue.declare" THEN queue_declare_ok(r.channel, r.name)
    ELSE queue_bind_ok(r.channel)

IsCloseFrame(r) ==
    /\ Len(r) = 1
    /\ r[1].type \in {"channel.close", "connection.close"}

C12_ReplyPolicy ==
    request.type \in {"exchange.declare", "queue.declare", "queue.bind"}
        => \/ IsCloseFrame(reply)
           \/ reply = IF RequestNoWait(request) THEN None
                      ELSE Some(MatchingOk(request))

\* C18: every recorded binding (exchange, queue) names an exchange that has
\* been declared and a queue that has been declared.
C18_BindingIntegrity ==
    \A b \in binding :
        /\ b[1] \in DOMAIN ctx_exchanges
        /\ b[2] \in queues

(* ---- queue actor claims ---- *)

\* The sinks in a consumers Vec.
SinksOf(consumers) == {consumers[i] : i \in 1..Len(consumers)}

\* C15: round-robin.  With k >= 2 consumers subscribed and the consumer set
\* unchanged over k consecutive messages, each of these messages is
\* delivered to exactly one consumer and every consumer receives exactly
\* one of them.
C15_RoundRobin ==
    \A i \in 1..Len(q_log) :
        LET k == Len(q_log[i].consumers)
            window == i..(i + k - 1)
        IN ( /\ k >= 2
             /\ i + k - 1 <= Len(q_log)
             /\ \A j \in window : q_log[j].consumers = q_log[i].consumers )
           => /\ \A j \in window : q_log[j].target # None
              /\ \A c \in SinksOf(q_log[i].consumers) :
                    Cardinality({j \in window : q_log[j].target = Some(c)}) = 1

\* The content bodies among the frames a consumer has received, in order.
Bodies(frames) ==
    LET bodyFrames == SelectSeq(frames, LAMBDA f : f.type = "content-body")
    IN [i \in 1..Len(bodyFrames) |-> bodyFrames[i].body]

\* The contents of the messages the queue has received, in arrival order.
Arrived == [i \in 1..Len(q_log) |-> q_log[i].content]

\* C16: no message loss without consumers.  Messages that arrived while no
\* consumer was subscribed are kept, and once a consumer has subscribed and
\* the queue has nothing left to send, that consumer has received every
\* message that arrived so far, in arrival order; none was discarded.
C16_NoMessageLoss ==
    ( /\ Len(q_consumers) = 1
      /\ q_sending = <<>> )
    => Bodies(sink_frames[q_consumers[1]]) = Arrived

\* The contents of the messages dispatched to consumer c, in arrival order.
DispatchedTo(c) ==
    LET entries == SelectSeq(q_log, LAMBDA e : e.target = Some(c))
    IN [i \in 1..Len(entries) |-> entries[i].content]

\* C17: delivery order.  The frames a consumer has received are triples
\* (basic.deliver, content header, content body), the m-th triple carrying
\* the m-th message dispatched to that consumer: the header's body_size is
\* the length of the body that follows, and the triples are in the order
\* the messages were enqueued.
C17_DeliveryOrder ==
    \A c \in Sinks :
        LET f == sink_frames[c]
            d == DispatchedTo(c)
        IN \A i \in 1..Len(f) :
              LET m == ((i - 1) \div 3) + 1
              IN /\ m <= Len(d)
                 /\ i % 3 = 1 => f[i].type = "basic.deliver"
                 /\ i % 3 = 2 => /\ f[i].type = "content-header"
                                 /\ f[i].body_size = Len(d[m])
                 /\ i % 3 = 0 => /\ f[i].type = "content-body"
                                 /\ f[i].body = d[m]
                                 /\ f[i - 1].body_size = Len(f[i].body)

\* A consumer has received the triples of two messages of different length.
C17_Witness ==
    \E c \in Sinks :
        /\ Len(sink_frames[c]) >= 6
        /\ Len(sink_frames[c][3].body) # Len(sink_frames[c][6].body)

(* ---- publish to delivery claims ---- *)

\* The exchange actor routes the message at the head of its channel.
Routes == ex_inbox # <<>> /\ ex_inbox' = Tail(ex_inbox)

\* Queue q is sent message m exactly once in this step.
ForwardedOnce(q, m) == forwarded'[q] = Append(forwarded[q], m.message)

\* The bindings among `bindings` that a message m published with its
\* routing key matches on a direct exchange.
MatchingBindings(bindings, m) ==
    {b \in bindings : b.exchange = m.exchange /\ Some(b.routing_key) = m.routing_key}

\* C13: fanout end-to-end.  A message published to a fanout exchange after
\* a queue was bound to it (queue.bind answered with queue.bind-ok) is
\* forwarded to that queue, once, when the exchange actor routes it; with
\* several queues bound each gets it exactly once.
C13_FanoutDelivery ==
    [][ Routes =>
          LET m == Head(ex_inbox)
          IN ctx_exchanges[m.exchange].exchange_type = "fanout"
             => \A b \in m.bindings :
                   b.exchange = m.exchange => ForwardedOnce(b.queue, m) ]_vars

\* C14: direct routing.  A message published to a direct exchange with
\* routing key k is forwarded to the queues bound to the exchange with key
\* k before the publish, and a queue with no binding of key k to that
\* exchange receives nothing (so no queue does when no binding has key k).
C14_DirectRouting ==
    [][ Routes =>
          LET m == Head(ex_inbox)
          IN ctx_exchanges[m.exchange].exchange_type = "direct"
             => \A q \in QueueNames :
                   /\ (\E b \in MatchingBindings(m.bindings, m) : b.queue = q)
                         => ForwardedOnce(q, m)
                   /\ ~(\E b \in MatchingBindings(bind_log, m) : b.queue = q)
                         => forwarded'[q] = forwarded[q] ]_vars

(* ---- codec claims ---- *)

\* The big-endian number held by bytes from..from+n-1 of buf.
RECURSIVE BigEndian(_, _, _)
BigEndian(buf, from, n) ==
    IF n = 0 THEN 0
    ELSE BigEndian(buf, from, n - 1) * 256 + buf[from + n - 1]

\* Bytes an argument takes in a method frame.
ArgSize(arg) ==
    CASE arg.type = "U8" -> 1
      [] arg.type = "U16" -> 2
      [] arg.type = "U32" -> 4
      [] arg.type = "SimpleString" -> 1 + Len(arg.value)
      [] arg.type = "LongString" -> 4 + Len(arg.value)

\* Index in the frame of the first byte of argument i.
RECURSIVE ArgOffset(_, _)
ArgOffset(args, i) ==
    IF i = 1 THEN 12 ELSE ArgOffset(args, i - 1) + ArgSize(args[i - 1])

\* Argument arg is found at index off of buf.
ArgAt(buf, off, arg) ==
    CASE arg.type \in {"U8", "U16", "U32"} ->
            BigEndian(buf, off, ArgSize(arg)) = arg.value
      [] arg.type = "SimpleString" ->
            /\ buf[off] = Len(arg.value)
            /\ \A j \in 1..Len(arg.value) : buf[off + j] = arg.value[j]
      [] arg.type = "LongString" ->
            /\ BigEndian(buf, off, 4) = Len(arg.value)
            /\ \A j \in 1..Len(arg.value) : buf[off + 3 + j] = arg.value[j]

\* C20: method frame layout.  The bytes of an encoded method frame are
\* 0x01, the channel as u16 big-endian, the length as u32 big-endian, the
\* class-method id as u32 big-endian, the encoded arguments and 0xCE; the
\* length counts the class-method id and the arguments; a short string has
\* a 1-byte length and a long string a 4-byte length.  The frame of
\* tests::encode_method_frame is encoded as that test expects.
C20_MethodFrameLayout ==
    (enc_bytes # <<>> /\ enc_frame[1].type = "Method") =>
        LET f == enc_frame[1]
            b == enc_bytes
            n == Len(f.args)
            argsEnd == IF n = 0 THEN 12 ELSE ArgOffset(f.args, n) + ArgSize(f.args[n])
        IN /\ \A i \in 1..Len(b) : b[i] \in 0..255
           /\ b[1] = 1
           /\ BigEndian(b, 2, 2) = f.channel
           /\ BigEndian(b, 4, 4) = 4 + (argsEnd - 12)
           /\ BigEndian(b, 8, 4) = f.class_method
           /\ \A i \in 1..n : ArgAt(b, ArgOffset(f.args, i), f.args[i])
           /\ Len(b) = argsEnd
           /\ b[Len(b)] = 206
           /\ f = TestFrame => b = TestExpected

\* The frame of tests::encode_method_frame, with a short and a long string,
\* has been encoded.
C20_Witness ==
    /\ enc_frame = Some(TestFrame)
    /\ enc_bytes # <<>>

(* ---- client claims ---- *)

\* Call id waits for its reply and the transport is lost: the socket is
\* closed or the socket_loop task has ended.
WaitingOnLostTransport(id) ==
    /\ cl_calls[id] = "waiting"
    /\ cl_response[id] = "none"
    /\ (cl_socket = "closed" \/ cl_driver = "ended")

C21_ChannelErrorCloses ==
    [][ ( /\ request'.type \in {"basic.publish", "exchange.declare"}
          /\ Len(reply') = 1
          /\ reply'[1].type = "channel.close" )
        => reply'[1].channel \notin open_channels' ]_vars

\* C22: every channel.close or connection.close the broker emits carries
\* the class and method of the request that failed.
C22_FailingClassMethod ==
    IsCloseFrame(reply) => reply[1].class_method = request.type

\* C28: every channel with an in-flight PublishedContent is in the
\* connection's open channel set; after channel.close on N no in-flight
\* content remains for N.
C28_InFlightOnOpenChannels ==
    DOMAIN in_flight_contents \subseteq open_channels

\* C29: basic.publish is answered with 404 only if the exchange name is
\* absent from the broker-wide registry; an exchange another connection
\* declared can be published to.
C29_PublishSeesRegistry ==
    [][ ( /\ request'.type = "basic.publish"
          /\ IsClose(reply', "channel.close", request'.channel, NOT_FOUND) )
        => request'.exchange_name \notin DOMAIN ctx_exchanges ]_vars

(* ---------------------- concurrent declare claims ---------------------- *)

\* A connection task suspended inside create_exchange.
Suspended(c) == dc_pc[c] \in {"send", "recv"}

\* C23: no connection task is suspended on the send into the control
\* channel or on the one-shot reply while it holds the guard of the Context
\* mutex, and no declare waits for that mutex while its holder waits for
\* the exchange manager.
C23_NoLockAcrossSuspension ==
    /\ \A c \in Connections : Suspended(c) => c \notin dc_holders
    /\ \A c, d \in Connections :
          (dc_pc[c] = "lock" /\ Suspended(d)) => d \notin dc_holders

\* Both declares have returned and they named the same exchange.
BothDeclared ==
    /\ \A c \in Connections : dc_pc[c] = "done"
    /\ dc_args["A"][1].exchange_name = dc_args["B"][1].exchange_name

\* The results and the registry of running x's declare, then y's, one after
\* the other on the empty registry.
Sequential(x, y) ==
    LET r1 == exchange_declare_call(EmptyMap, dc_args[x][1])
        r2 == exchange_declare_call(r1.exchanges, dc_args[y][1])
    IN  [registry |-> r2.exchanges,
         results |-> [c \in {x, y} |->
            IF c = x
            THEN Some([ok |-> r1.ok,
                       reply |-> exchange_declare_reply(DeclareChannel,
                                                        dc_args[x][1], r1)])
            ELSE Some([ok |-> r2.ok,
                       reply |-> exchange_declare_reply(DeclareChannel,
                                                        dc_args[y][1], r2)])]]

\* The outcome of the two declares is that of one of the sequential orders.
Serialised ==
    \E x, y \in Connections :
        /\ x # y
        /\ ctx_exchanges = Sequential(x, y).registry
        /\ dc_result = Sequential(x, y).results

Departed(k) == {c \in DOMAIN sink_failed : sink_failed[c] < k}

\* C25: once a send to a consumer has failed, a message enqueued afterwards
\* is not dispatched to that consumer, and it is dispatched to a consumer
\* whose endpoint is alive if one is subscribed.
C25_ConsumerDeparture ==
    [][ ( /\ q_log' # q_log
          /\ Departed(Len(q_log')) # {} )
        => LET target == q_log'[Len(q_log')].target
           IN  /\ target # None => target[1] \notin Departed(Len(q_log'))
               /\ (\E i \in 1..Len(q_consumers) : q_consumers[i] \notin sink_closed)
                     => (target # None /\ target[1] \notin sink_closed) ]_vars

(* --------------------------- publish claim ----------------------------- *)

\* C26: a complete content message is never dropped by the connection: the
\* messages published so far are, in publish order and each once, those the
\* exchange channel has accepted followed by the one the handler is still
\* sending; while a message waits for room in the channel the connection
\* handles no further frame; and every published message is eventually
\* accepted by the channel of its (live) exchange actor.
C26_PublishBackpressure ==
    /\ [](pub_log = enq_log \o conn_sending)
    /\ [][conn_sending # None => frame_turn' = frame_turn]_vars
    /\ \A k \in 1..MaxPublished :
          (Len(pub_log) >= k) ~> (Len(enq_log) >= k /\ enq_log[k] = pub_log[k])

\* A message has waited for room in the full channel of the exchange actor
\* and has been accepted after an earlier one.
C26_Witness ==
    /\ Len(enq_log) >= 2
    /\ conn_sending # None
    /\ Len(ex_channel) = ExchangeCapacity

(* -------------------------- handshake claim ---------------------------- *)

\* The position in the driver's log of the first frame of this type that
\* went in this direction, 0 if there is none.
First(dir, type) ==
    LET hits == {i \in 1..Len(hs_log) : hs_log[i].dir = dir /\ hs_log[i].frame.type = type}
    IN  IF hits = {} THEN 0 ELSE CHOOSE i \in hits : \A j \in hits : i <= j

\* Every frame of type `later` sent so far was sent after the first frame of
\* type `type` went in direction `dir`.
SentAfter(later, dir, type) ==
    First("sent", later) # 0
        => (First(dir, type) # 0 /\ First(dir, type) < First("sent", later))

====
